---- MODULE Spec2Model ----
(***************************************************************************)
(* Two-reservoir energy-balance model of Hansen et al. 1981, as            *)
(* implemented by class HansenEtAl1981 in climate_model.py and in          *)
(* hansen_et_al_1981.py.                                                   *)
(*                                                                         *)
(* Python floats are modelled as exact decimal rationals n/d * 10^e in a   *)
(* canonical form, so that the arithmetic of run is carried out as written *)
(* (same operations, same order) without rounding.  Values whose           *)
(* numerator or denominator would leave the range [-Limit, Limit] are      *)
(* outside the model and the calls that produce them are not explored.     *)
(***************************************************************************)
EXTENDS Integers, Sequences, FiniteSets, TLC

\* ------------------------------------------------------------------------
\* Bounds of the model
\* ------------------------------------------------------------------------
Limit == 1000000000
MaxYear == 2
MaxCalls == 3
MaxForcingCalls == 1

\* ------------------------------------------------------------------------
\* Python values: float, nan, None
\* ------------------------------------------------------------------------
Abs(x) == IF x < 0 THEN -x ELSE x

RECURSIVE GCD(_, _)
GCD(a, b) == IF b = 0 THEN a ELSE GCD(b, a % b)

NaN == [kind |-> "nan", n |-> 0, d |-> 1, e |-> 0]
NoneVal == [kind |-> "None", n |-> 0, d |-> 1, e |-> 0]
OutOfRange == [kind |-> "range", n |-> 0, d |-> 1, e |-> 0]

IsNum(x) == x.kind = "float"
isnan(x) == x.kind = "nan"

\* n * 10^e with 10 not dividing n (n # 0)
RECURSIVE StripNum(_, _, _)
StripNum(n, d, e) ==
    IF n % 10 = 0 THEN StripNum(n \div 10, d, e + 1) ELSE <<n, d, e>>

\* denominator made coprime to 10; gcd(n, d) = 1 on entry
RECURSIVE StripDen(_, _, _)
StripDen(n, d, e) ==
    IF d % 10 = 0 THEN StripDen(n, d \div 10, e - 1)
    ELSE IF d % 2 = 0
         THEN IF Abs(n) * 5 > Limit THEN <<0, 0, 0>>
              ELSE StripDen(n * 5, d \div 2, e - 1)
    ELSE IF d % 5 = 0
         THEN IF Abs(n) * 2 > Limit THEN <<0, 0, 0>>
              ELSE StripDen(n * 2, d \div 5, e - 1)
    ELSE <<n, d, e>>

Float(t) ==
    IF t[2] = 0 THEN OutOfRange
    ELSE [kind |-> "float", n |-> t[1], d |-> t[2], e |-> t[3]]

StripBoth(s) == StripDen(s[1], s[2], s[3])

Lowest(n, d, e, g) == StripNum(n \div g, d \div g, e)

\* canonical form of n/d * 10^e  (d > 0)
Norm(n, d, e) ==
    IF n = 0 THEN [kind |-> "float", n |-> 0, d |-> 1, e |-> 0]
    ELSE Float(StripBoth(Lowest(n, d, e, GCD(Abs(n), d))))

\* the float written n/d, and the float written n * 10^e
Q(n, d) == Norm(n, d, 0)
Dec(n, e) == Norm(n, 1, e)
Zero == Q(0, 1)
Half == Q(1, 2)

RECURSIVE Pow10(_)
Pow10(k) == IF k = 0 THEN 1 ELSE 10 * Pow10(k - 1)

MulFits(a, b) == a = 0 \/ b = 0 \/ Abs(a) <= Limit \div Abs(b)

RNeg(x) == IF IsNum(x) THEN [x EXCEPT !.n = -x.n] ELSE x

RMul(x, y) ==
    IF ~(IsNum(x) /\ IsNum(y)) THEN OutOfRange
    ELSE LET g1 == GCD(Abs(x.n), y.d)
             g2 == GCD(Abs(y.n), x.d)
             n1 == x.n \div g1
             n2 == y.n \div g2
             d1 == x.d \div g2
             d2 == y.d \div g1
         IN  IF x.n = 0 \/ y.n = 0 THEN Zero
             ELSE IF MulFits(n1, n2) /\ MulFits(d1, d2)
                  THEN Norm(n1 * n2, d1 * d2, x.e + y.e)
                  ELSE OutOfRange

\* 1/x for x # 0
RInv(x) ==
    IF ~IsNum(x) \/ x.n = 0 THEN OutOfRange
    ELSE IF x.n < 0 THEN Norm(-x.d, -x.n, -x.e) ELSE Norm(x.d, x.n, -x.e)

RDiv(x, y) == RMul(x, RInv(y))

RAdd(x, y) ==
    IF ~(IsNum(x) /\ IsNum(y)) THEN OutOfRange
    ELSE IF x.n = 0 THEN y
    ELSE IF y.n = 0 THEN x
    ELSE LET e  == IF x.e < y.e THEN x.e ELSE y.e
             kx == x.e - e
             ky == y.e - e
         IN  IF kx > 9 \/ ky > 9 THEN OutOfRange
             ELSE LET px == Pow10(kx)
                      py == Pow10(ky)
                  IN  IF ~(MulFits(x.n, px) /\ MulFits(y.n, py)) THEN OutOfRange
                      ELSE LET g  == GCD(x.d, y.d)
                               mx == y.d \div g
                               my == x.d \div g
                               a  == x.n * px
                               b  == y.n * py
                           IN  IF ~(MulFits(a, mx) /\ MulFits(b, my)
                                    /\ MulFits(x.d, mx))
                               THEN OutOfRange
                               ELSE Norm(a * mx + b * my, x.d * mx, e)

RSub(x, y) == RAdd(x, RNeg(y))

\* x <= y for floats whose difference is in range
RLeq(x, y) == LET z == RSub(y, x) IN IsNum(z) /\ z.n >= 0
RAbs(x) == IF IsNum(x) /\ x.n < 0 THEN RNeg(x) ELSE x
RMax(x, y) == IF RLeq(x, y) THEN y ELSE x

IsNone(x) == x.kind = "None"
IsZero(x) == IsNum(x) /\ x.n = 0

Range(s) == {s[i] : i \in DOMAIN s}

\* ------------------------------------------------------------------------
\* Module defaults
\* ------------------------------------------------------------------------
lmbd_DEFAULT == Dec(8, -1)
K_DEFAULT == Dec(1, -4)
dm_DEFAULT == Dec(1, 2)
dd_DEFAULT == Dec(9, 2)
dt_DEFAULT == Dec(31536, 3)
Cm_DEFAULT == Dec(4218, 5)
Cd_DEFAULT == Dec(37962, 5)
ht_DEFAULT == Dec(4218, -1)
Tm_DEFAULT == Zero
Td_DEFAULT == Zero
alpha_DEFAULT == Dec(2, -4)
a_DEFAULT == Dec(3, -3)
b_DEFAULT == Dec(49, -3)
PRE_INDUSTRIAL == Dec(7, -2)

ParamNames ==
    {"climate_sensitivity", "diffusivity", "mixed_layer_depth", "deep_ocean_depth",
     "dt", "Cm", "Cd", "ht", "Tm", "Td", "alpha", "a", "b"}

Variants == {"climate_model", "hansen_et_al_1981"}

\* keyword arguments are a function from the names given to their values
NoArgs == [p \in {} |-> Zero]
Arg(args, name, dflt) == IF name \in DOMAIN args THEN args[name] ELSE dflt

\* ------------------------------------------------------------------------
\* Construction and parameter setting
\* ------------------------------------------------------------------------
\* climate_model.py __init__: keyword defaults are the module defaults
ClimateModelInit(args) ==
    [l     |-> Arg(args, "climate_sensitivity", lmbd_DEFAULT),
     K     |-> Arg(args, "diffusivity", K_DEFAULT),
     dm    |-> Arg(args, "mixed_layer_depth", dm_DEFAULT),
     dd    |-> Arg(args, "deep_ocean_depth", dd_DEFAULT),
     dt    |-> Arg(args, "dt", dt_DEFAULT),
     Cm    |-> Arg(args, "Cm", Cm_DEFAULT),
     Cd    |-> Arg(args, "Cd", Cd_DEFAULT),
     ht    |-> Arg(args, "ht", ht_DEFAULT),
     Tm    |-> Arg(args, "Tm", Tm_DEFAULT),
     Td    |-> Arg(args, "Td", Td_DEFAULT),
     alpha |-> Arg(args, "alpha", alpha_DEFAULT),
     a     |-> Arg(args, "a", a_DEFAULT),
     b     |-> Arg(args, "b", b_DEFAULT),
     pre_industrial |-> PRE_INDUSTRIAL]

\* hansen_et_al_1981.py set_model_params: assigns all thirteen attributes,
\* a keyword left out takes the module default; pre_industrial is untouched
set_model_params(self, args) ==
    [self EXCEPT
     !.l     = Arg(args, "climate_sensitivity", lmbd_DEFAULT),
     !.K     = Arg(args, "diffusivity", K_DEFAULT),
     !.dm    = Arg(args, "mixed_layer_depth", dm_DEFAULT),
     !.dd    = Arg(args, "deep_ocean_depth", dd_DEFAULT),
     !.dt    = Arg(args, "dt", dt_DEFAULT),
     !.Cm    = Arg(args, "Cm", Cm_DEFAULT),
     !.Cd    = Arg(args, "Cd", Cd_DEFAULT),
     !.ht    = Arg(args, "ht", ht_DEFAULT),
     !.Tm    = Arg(args, "Tm", Tm_DEFAULT),
     !.Td    = Arg(args, "Td", Td_DEFAULT),
     !.alpha = Arg(args, "alpha", alpha_DEFAULT),
     !.a     = Arg(args, "a", a_DEFAULT),
     !.b     = Arg(args, "b", b_DEFAULT)]

\* the object before __init__ has assigned anything
Blank ==
    [l |-> NoneVal, K |-> NoneVal, dm |-> NoneVal, dd |-> NoneVal, dt |-> NoneVal,
     Cm |-> NoneVal, Cd |-> NoneVal, ht |-> NoneVal, Tm |-> NoneVal, Td |-> NoneVal,
     alpha |-> NoneVal, a |-> NoneVal, b |-> NoneVal, pre_industrial |-> NoneVal]

\* hansen_et_al_1981.py __init__: every keyword defaults to None and all
\* thirteen are passed on to set_model_params positionally
HansenInit(args) ==
    LET passed == [p \in ParamNames |-> Arg(args, p, NoneVal)]
    IN  [set_model_params(Blank, passed) EXCEPT !.pre_industrial = PRE_INDUSTRIAL]

Construct(variant, args) ==
    IF variant = "climate_model" THEN ClimateModelInit(args) ELSE HansenInit(args)

\* variant of init_ocean_temp that leaves the deep-ocean temperature alone
init_ocean_temp_Tm_only(self, Tm, Td) == [self EXCEPT !.Tm = Tm]

\* climate_model.py init_ocean_temp
init_ocean_temp(self, Tm, Td) == [self EXCEPT !.Tm = Tm, !.Td = Td]

\* ------------------------------------------------------------------------
\* DataFrames: ordered column names, index labels, one row per label
\* ------------------------------------------------------------------------
Frame(columns, index, data) == [columns |-> columns, index |-> index, data |-> data]
EmptyFrame == Frame(<<>>, <<>>, <<>>)

\* absent optional argument
NoFrame == [kind |-> "None", df |-> EmptyFrame]
SomeFrame(df) == [kind |-> "DataFrame", df |-> df]
NoDict == [kind |-> "None", items |-> NoArgs]
Dict(items) == [kind |-> "dict", items |-> items]

Drop(seq, x) == SelectSeq(seq, LAMBDA c : c # x)

\* df.set_index('YEAR'): the column becomes the index and leaves the columns
set_index_YEAR(df) ==
    IF "YEAR" \notin Range(df.columns)
    THEN [err |-> "KeyError", df |-> EmptyFrame]
    ELSE [err |-> "none",
          df  |-> Frame(Drop(df.columns, "YEAR"),
                        [i \in DOMAIN df.data |-> df.data[i]["YEAR"]],
                        [i \in DOMAIN df.data |->
                            [c \in DOMAIN df.data[i] \ {"YEAR"} |-> df.data[i][c]]])]

\* variant of concat that keeps the columns of the first frame only
concat_first_columns(x, y) ==
    LET Fill(row) == [c \in Range(x.columns) |-> IF c \in DOMAIN row THEN row[c] ELSE NaN]
    IN  Frame(x.columns,
              x.index \o y.index,
              [i \in 1..(Len(x.data) + Len(y.data)) |->
                  IF i <= Len(x.data) THEN Fill(x.data[i])
                  ELSE Fill(y.data[i - Len(x.data)])])

\* pd.concat([x, y]): rows of x then rows of y, over the union of the
\* columns; a cell of a column the row's frame does not have is NaN
concat(x, y) ==
    LET cols == x.columns \o SelectSeq(y.columns, LAMBDA c : c \notin Range(x.columns))
        Fill(row) == [c \in Range(cols) |-> IF c \in DOMAIN row THEN row[c] ELSE NaN]
    IN  Frame(cols,
              x.index \o y.index,
              [i \in 1..(Len(x.data) + Len(y.data)) |->
                  IF i <= Len(x.data) THEN Fill(x.data[i])
                  ELSE Fill(y.data[i - Len(x.data)])])

\* line 96 / 139: the concatenation, once set_index has returned s or raised
merge(historical_forcing_df, s) ==
    IF s.err # "none" THEN s
    ELSE [err |-> "none", df |-> concat(historical_forcing_df, s.df)]

\* variant of merge that drops a scenario frame set_index could not index
merge_lenient(historical_forcing_df, s) ==
    IF s.err # "none" THEN [err |-> "none", df |-> historical_forcing_df]
    ELSE [err |-> "none", df |-> concat(historical_forcing_df, s.df)]

\* variant of forcing_df_of that falls back to the historical frame when the
\* scenario frame has no YEAR column
forcing_df_of_lenient(historical_forcing_df, ssps_forcing_df) ==
    IF ssps_forcing_df.kind # "None"
    THEN merge_lenient(historical_forcing_df, set_index_YEAR(ssps_forcing_df.df))
    ELSE [err |-> "none", df |-> historical_forcing_df]

\* lines 94-98 / 137-141: the frame run iterates over
forcing_df_of(historical_forcing_df, ssps_forcing_df) ==
    IF ssps_forcing_df.kind # "None"
    THEN merge(historical_forcing_df, set_index_YEAR(ssps_forcing_df.df))
    ELSE [err |-> "none", df |-> historical_forcing_df]

\* list(set(...)): the elements in the iteration order of this process's
\* string hashing, which order is a permutation of the names
list_of_set(S, order) == SelectSeq(order, LAMBDA c : c \in S)

\* lines 101 / 144-145
forcing_factors_of(scaling_factor, forcing_df, order) ==
    list_of_set(DOMAIN scaling_factor.items \cap Range(forcing_df.columns), order)

\* lines 106-109 / 150-153: the result frame before the loop, all cells NaN
ResultColumns == <<"Forcing", "Deep dT", "Mixed dT", "Pred Anom">>

columns_of(forcing_factors, return_forcings) ==
    IF return_forcings THEN forcing_factors \o ResultColumns ELSE ResultColumns

empty_results(columns, index) ==
    Frame(columns, index, [i \in DOMAIN index |-> [k \in DOMAIN columns |-> NaN]])

\* results_df.loc[year] = results_row: every row labelled year is assigned
loc_assign(results_df, year, results_row) ==
    [results_df EXCEPT !.data =
        [i \in DOMAIN results_df.data |->
            IF results_df.index[i] = year THEN results_row ELSE results_df.data[i]]]

\* ------------------------------------------------------------------------
\* One iteration of the loop of run
\* ------------------------------------------------------------------------
\* variant of forcing_vals_of with the isnan test inverted
forcing_vals_of_inverted(row, forcing_factors, scaling_factor) ==
    [k \in DOMAIN forcing_factors |->
        RMul(IF isnan(row[forcing_factors[k]]) THEN row[forcing_factors[k]] ELSE Zero,
             scaling_factor.items[forcing_factors[k]])]

\* line 114 / 158-159
forcing_vals_of(row, forcing_factors, scaling_factor) ==
    [k \in DOMAIN forcing_factors |->
        RMul(IF ~isnan(row[forcing_factors[k]]) THEN row[forcing_factors[k]] ELSE Zero,
             scaling_factor.items[forcing_factors[k]])]

\* line 116 / 161: sum() adds from the left, starting at 0
RECURSIVE sum(_)
sum(vals) ==
    IF vals = <<>> THEN Zero
    ELSE RAdd(sum(SubSeq(vals, 1, Len(vals) - 1)), vals[Len(vals)])

\* self.Td += num / den, for the divisor den
add_to_Td(self, den) ==
    IF \E x \in {self.dt, self.ht, self.Tm, self.Td, self.Cd, self.dm, self.dd} :
           IsNone(x)
    THEN [err |-> "TypeError", self |-> self]
    ELSE IF IsZero(den)
    THEN [err |-> "ZeroDivisionError", self |-> self]
    ELSE [err  |-> "none",
          self |-> [self EXCEPT !.Td =
                      RAdd(self.Td,
                           RDiv(RMul(RMul(self.dt, self.ht), RSub(self.Tm, self.Td)),
                                den))]]

\* variant of update_Td whose divisor leaves out the depths
update_Td_no_depths(self) == add_to_Td(self, RMul(Half, self.Cd))

\* line 120 / 165-166: self.Td += ...
update_Td(self) == add_to_Td(self, RMul(RMul(Half, self.Cd), RAdd(self.dm, self.dd)))

\* self.Tm += dt * (F - exch - Tm/l) / C, for the exchange term and divisor C
add_to_Tm(self, F, exch, C) ==
    IF IsNone(self.l) THEN [err |-> "TypeError", self |-> self]
    ELSE IF IsZero(self.l) THEN [err |-> "ZeroDivisionError", self |-> self]
    ELSE IF IsNone(self.Cm) THEN [err |-> "TypeError", self |-> self]
    ELSE IF IsZero(self.Cm) THEN [err |-> "ZeroDivisionError", self |-> self]
    ELSE [err  |-> "none",
          self |-> [self EXCEPT !.Tm =
                      RAdd(self.Tm,
                           RDiv(RMul(self.dt,
                                     RSub(RSub(F, exch), RDiv(self.Tm, self.l))),
                                C))]]

\* the heat exchanged with the deep ocean, ht*(Tm-Td)/(0.5*(dm+dd))
exchange(self) ==
    RDiv(RMul(self.ht, RSub(self.Tm, self.Td)), RMul(Half, RAdd(self.dm, self.dd)))

\* variant of update_Tm that divides by the deep-ocean heat capacity
update_Tm_by_Cd(self, F) == add_to_Tm(self, F, exchange(self), self.Cd)

\* line 124 / 170-171: self.Tm += ..., evaluated after self.Td was assigned
update_Tm(self, F) == add_to_Tm(self, F, exchange(self), self.Cm)

\* the outcome of one iteration: exception or "none", attributes, forcing,
\* contributions and the row written
Outcome(err, self, F, vals, results_row) ==
    [err |-> err, self |-> self, F |-> F, vals |-> vals, results_row |-> results_row]

\* lines 127-133 / 174-180: anomaly and result row
step_row(self, forcing_vals, F, anom, return_forcings) ==
    IF ~(IsNum(F) /\ IsNum(self.Td) /\ IsNum(self.Tm) /\ IsNum(anom))
    THEN Outcome("range", self, F, forcing_vals, <<>>)
    ELSE Outcome("none", self, F, forcing_vals,
                 IF return_forcings THEN forcing_vals \o <<F, self.Td, self.Tm, anom>>
                 ELSE <<F, self.Td, self.Tm, anom>>)

\* after line 124 / 171 has assigned self.Tm (u2) or raised
step_after_Tm(u2, forcing_vals, F, return_forcings) ==
    IF u2.err # "none" THEN Outcome(u2.err, u2.self, F, forcing_vals, <<>>)
    ELSE step_row(u2.self, forcing_vals, F, RSub(u2.self.Tm, u2.self.pre_industrial),
                  return_forcings)

\* after line 120 / 166 has assigned self.Td (u1) or raised
step_after_Td(u1, forcing_vals, F, return_forcings) ==
    IF u1.err # "none" THEN Outcome(u1.err, u1.self, F, forcing_vals, <<>>)
    ELSE step_after_Tm(update_Tm(u1.self, F), forcing_vals, F, return_forcings)

\* after line 114 / 159 has computed the contributions
step_with(self, forcing_vals, return_forcings) ==
    step_after_Td(update_Td(self), forcing_vals, sum(forcing_vals), return_forcings)

\* lines 113-133 / 157-180: the body of the loop for one row
step(self, row, forcing_factors, scaling_factor, return_forcings) ==
    step_with(self, forcing_vals_of(row, forcing_factors, scaling_factor),
              return_forcings)

\* lines 112-133 / 156-180: rows i..end of forcing_df, in order; an exception
\* leaves the loop with the attributes as assigned so far
RECURSIVE loop(_, _, _, _, _, _, _, _)
RECURSIVE loop_after(_, _, _, _, _, _, _, _, _)
loop(self, forcing_df, forcing_factors, scaling_factor, return_forcings, results_df, trace, i) ==
    IF i > Len(forcing_df.data)
    THEN [err |-> "none", self |-> self, result |-> results_df, trace |-> trace]
    ELSE loop_after(step(self, forcing_df.data[i], forcing_factors, scaling_factor,
                         return_forcings),
                    self, forcing_df, forcing_factors, scaling_factor, return_forcings,
                    results_df, trace, i)

\* the rest of the loop once row i has been processed with outcome s
loop_after(s, self, forcing_df, forcing_factors, scaling_factor, return_forcings, results_df, trace, i) ==
    IF s.err # "none"
    THEN [err |-> s.err, self |-> s.self, result |-> EmptyFrame, trace |-> trace]
    ELSE loop(s.self, forcing_df, forcing_factors, scaling_factor, return_forcings,
              loc_assign(results_df, forcing_df.index[i], s.results_row),
              Append(trace, [year |-> forcing_df.index[i],
                             F    |-> s.F,
                             vals |-> s.vals,
                             Tm0  |-> self.Tm,
                             Td0  |-> self.Td,
                             Tm   |-> s.self.Tm,
                             Td   |-> s.self.Td]),
              i + 1)

\* lines 100-133 / 143-180: factors, result frame and loop
run_loop(self, forcing_df, forcing_factors, scaling_factor, return_forcings) ==
    loop(self, forcing_df, forcing_factors, scaling_factor, return_forcings,
         empty_results(columns_of(forcing_factors, return_forcings), forcing_df.index),
         <<>>, 1)

\* lines 100-135 / 143-182: the call once the series m to iterate over is known
run_on(self, m, scaling_factor, return_forcings, order) ==
    IF m.err # "none"
    THEN [err |-> m.err, self |-> self, result |-> EmptyFrame, trace |-> <<>>]
    ELSE IF scaling_factor.kind = "None"
    THEN [err |-> "AttributeError", self |-> self, result |-> EmptyFrame, trace |-> <<>>]
    ELSE run_loop(self, m.df, forcing_factors_of(scaling_factor, m.df, order),
                  scaling_factor, return_forcings)

\* variant of run that starts every call from the default temperatures
run_from_rest(self, historical_forcing_df, ssps_forcing_df, scaling_factor, return_forcings, order) ==
    run_on([self EXCEPT !.Tm = Tm_DEFAULT, !.Td = Td_DEFAULT],
           forcing_df_of(historical_forcing_df, ssps_forcing_df),
           scaling_factor, return_forcings, order)

\* run, lines 81-135 / 119-182: the attributes after the call, the exception
\* raised ("none" when it returns), the frame returned and the steps taken
run(self, historical_forcing_df, ssps_forcing_df, scaling_factor, return_forcings, order) ==
    run_on(self, forcing_df_of(historical_forcing_df, ssps_forcing_df),
           scaling_factor, return_forcings, order)

\* ------------------------------------------------------------------------
\* Inputs
\* ------------------------------------------------------------------------
\* the forcing table the caller slices: one row per year, columns CO2, AER
\* and N2O, with missing cells
HistColumns == <<"CO2", "AER", "N2O">>

Data(y) ==
    IF y % 3 = 1 THEN [c \in Range(HistColumns) |->
                          IF c = "CO2" THEN Q(1, 1) ELSE IF c = "AER" THEN NaN ELSE Q(1, 1)]
    ELSE IF y % 3 = 2 THEN [c \in Range(HistColumns) |->
                          IF c = "CO2" THEN Q(-1, 2) ELSE IF c = "AER" THEN Q(1, 1) ELSE NaN]
    ELSE [c \in Range(HistColumns) |->
                          IF c = "CO2" THEN NaN ELSE IF c = "AER" THEN Q(1, 2) ELSE Q(1, 1)]

\* rows of years i..j (no rows when j < i)
Slice(i, j) ==
    Frame(HistColumns, [k \in 1..(j - i + 1) |-> i + k - 1],
          [k \in 1..(j - i + 1) |-> Data(i + k - 1)])

HistFrames == {Slice(i, j) : i \in 1..MaxYear, j \in 0..MaxYear}

\* a scenario table with a YEAR column; its first year repeats the last
\* historical year
ScenarioRow(y, co2) ==
    [c \in {"YEAR", "CO2", "SOL"} |->
        IF c = "YEAR" THEN y ELSE IF c = "CO2" THEN co2 ELSE Q(1, 1)]

Scenario ==
    Frame(<<"YEAR", "CO2", "SOL">>, <<0, 1>>,
          <<ScenarioRow(MaxYear, NaN), ScenarioRow(MaxYear + 1, Q(3, 2))>>)

\* the same table without its YEAR column
ScenarioNoYear ==
    Frame(<<"CO2", "SOL">>, <<0, 1>>,
          <<[c \in {"CO2", "SOL"} |-> Q(1, 1)], [c \in {"CO2", "SOL"} |-> Q(1, 1)]>>)

ScenarioFrames == {NoFrame, SomeFrame(Scenario), SomeFrame(ScenarioNoYear)}

Keys == {"CO2", "AER", "SOL"}
OnlyCO2 == Dict([k \in {"CO2"} |-> Q(2, 1)])
AllZero == Dict([k \in Keys |-> Zero])
Mixed == Dict([k \in Keys |-> IF k = "CO2" THEN Q(2, 1)
                              ELSE IF k = "AER" THEN Q(1, 2) ELSE Q(-1, 1)])
EmptyDict == Dict(NoArgs)

IntegratorDicts == {OnlyCO2, AllZero}
ForcingDicts == {NoDict, EmptyDict, OnlyCO2, AllZero, Mixed}

\* iteration orders of a set of names in one process
HashOrders ==
    {<<"CO2", "AER", "SOL", "N2O">>, <<"CO2", "SOL", "AER", "N2O">>,
     <<"AER", "CO2", "SOL", "N2O">>, <<"AER", "SOL", "CO2", "N2O">>,
     <<"SOL", "CO2", "AER", "N2O">>, <<"SOL", "AER", "CO2", "N2O">>}

\* historical runs have CO2 and AER as their only active agents
IntegratorOrders == {<<"CO2", "AER", "SOL", "N2O">>, <<"SOL", "AER", "CO2", "N2O">>}

\* keyword arguments of the constructor and of set_model_params
Small ==
    [p \in {"climate_sensitivity", "mixed_layer_depth", "deep_ocean_depth",
            "dt", "Cm", "Cd", "ht"} |->
        IF p = "climate_sensitivity" THEN Q(2, 1)
        ELSE IF p = "mixed_layer_depth" THEN Q(1, 1)
        ELSE IF p = "deep_ocean_depth" THEN Q(3, 1)
        ELSE IF p = "dt" THEN Q(1, 1)
        ELSE IF p = "Cm" THEN Q(2, 1)
        ELSE IF p = "Cd" THEN Q(2, 1)
        ELSE Q(2, 1)]

With(args, name, v) ==
    [p \in DOMAIN args \cup {name} |-> IF p = name THEN v ELSE args[p]]
Without(args, name) == [p \in DOMAIN args \ {name} |-> args[p]]

Warm(args) == With(With(args, "Tm", Q(1, 1)), "Td", Zero)
Cold(args) == With(With(args, "Tm", Zero), "Td", Q(-1, 1))

LongStep == With(Small, "dt", Q(4, 1))

CtorArgs ==
    {NoArgs, Small, Warm(Small), Warm(LongStep),
     Without(Small, "climate_sensitivity"),
     Warm(With(Small, "climate_sensitivity", Zero))}

ForcingCtorArgs == {Small, Cold(Small)}

SetArgs == {NoArgs, Warm(Small)}

OceanTemps == {<<Zero, Zero>>, <<Q(1, 2), Q(-1, 1)>>}

\* ------------------------------------------------------------------------
\* State
\* ------------------------------------------------------------------------
VARIABLES
    variant,    \* which of the two files the object's class comes from
    hashOrder,  \* iteration order of sets of names in this process
    ctor,       \* keyword arguments the object was constructed with
    self,       \* the attributes of the HansenEtAl1981 object
    log         \* the calls made on the object so far, oldest first

vars == <<variant, hashOrder, ctor, self, log>>

Call(op, args, hist, ssps, sf, rf, pre, r) ==
    [op |-> op, args |-> args, hist |-> hist, ssps |-> ssps, sf |-> sf, rf |-> rf,
     pre |-> pre, post |-> r.self, err |-> r.err, result |-> r.result,
     trace |-> r.trace]

Constructed(orders, args) ==
    /\ variant \in Variants
    /\ hashOrder \in orders
    /\ ctor \in args
    /\ self = Construct(variant, ctor)
    /\ log = <<>>

Init == Constructed(IntegratorOrders, CtorArgs)

\* self.run(historical_forcing_df, ssps_forcing_df, scaling_factor, return_forcings)
Run(hist, ssps, sf, rf) ==
    \E r \in {run(self, hist, ssps, sf, rf, hashOrder)} :
        /\ r.err # "range"
        /\ self' = r.self
        /\ log' = Append(log, Call("run", NoArgs, hist, ssps, sf, rf, self, r))
        /\ UNCHANGED <<variant, hashOrder, ctor>>

Returned(s) == [err |-> "none", self |-> s, result |-> EmptyFrame, trace |-> <<>>]

\* self.init_ocean_temp(Tm, Td), a method of climate_model.py only
InitOceanTemp(Tm, Td) ==
    /\ variant = "climate_model"
    /\ Len(log) < MaxCalls
    /\ self' = init_ocean_temp(self, Tm, Td)
    /\ log' = Append(log, Call("init_ocean_temp", [p \in {"Tm", "Td"} |->
                                   IF p = "Tm" THEN Tm ELSE Td],
                               EmptyFrame, NoFrame, NoDict, FALSE, self,
                               Returned(init_ocean_temp(self, Tm, Td))))
    /\ UNCHANGED <<variant, hashOrder, ctor>>

\* self.set_model_params(**args), a method of hansen_et_al_1981.py only
SetModelParams(args) ==
    /\ variant = "hansen_et_al_1981"
    /\ Len(log) < MaxCalls
    /\ self' = set_model_params(self, args)
    /\ log' = Append(log, Call("set_model_params", args, EmptyFrame, NoFrame, NoDict,
                               FALSE, self, Returned(set_model_params(self, args))))
    /\ UNCHANGED <<variant, hashOrder, ctor>>

\* runs on historical data alone
RunHistorical ==
    /\ Len(log) < MaxCalls
    /\ \E hist \in HistFrames, sf \in IntegratorDicts, rf \in BOOLEAN :
          Run(hist, NoFrame, sf, rf)

Next ==
    \/ RunHistorical
    \/ \E t \in OceanTemps : InitOceanTemp(t[1], t[2])
    \/ \E args \in SetArgs : SetModelParams(args)

Spec == Init /\ [][Next]_vars

\* a run with any of the argument shapes: scenario table given or not,
\* scaling factors given or not
RunAny ==
    /\ Len(log) < MaxForcingCalls
    /\ \E hist \in HistFrames, ssps \in ScenarioFrames, sf \in ForcingDicts,
          rf \in BOOLEAN :
          Run(hist, ssps, sf, rf)

NextForcing == RunAny

InitForcing == Constructed(HashOrders, ForcingCtorArgs)

SpecForcing == InitForcing /\ [][NextForcing]_vars

\* ------------------------------------------------------------------------
\* Vocabulary of the properties
\* ------------------------------------------------------------------------
HasLast == log # <<>>
Last == log[Len(log)]
HasPrev == Len(log) >= 2
Prev == log[Len(log) - 1]

RanOk(c) == c.op = "run" /\ c.err = "none"
Positive(x) == IsNum(x) /\ x.n > 0

AttrOf(s, p) ==
    CASE p = "climate_sensitivity" -> s.l
      [] p = "diffusivity" -> s.K
      [] p = "mixed_layer_depth" -> s.dm
      [] p = "deep_ocean_depth" -> s.dd
      [] p = "dt" -> s.dt
      [] p = "Cm" -> s.Cm
      [] p = "Cd" -> s.Cd
      [] p = "ht" -> s.ht
      [] p = "Tm" -> s.Tm
      [] p = "Td" -> s.Td
      [] p = "alpha" -> s.alpha
      [] p = "a" -> s.a
      [] OTHER -> s.b

DefaultOf(p) ==
    CASE p = "climate_sensitivity" -> Dec(8, -1)
      [] p = "diffusivity" -> Dec(1, -4)
      [] p = "mixed_layer_depth" -> Dec(1, 2)
      [] p = "deep_ocean_depth" -> Dec(9, 2)
      [] p = "dt" -> Dec(31536, 3)
      [] p = "Cm" -> Dec(4218, 5)
      [] p = "Cd" -> Dec(37962, 5)
      [] p = "ht" -> Dec(4218, -1)
      [] p = "Tm" -> Zero
      [] p = "Td" -> Zero
      [] p = "alpha" -> Dec(2, -4)
      [] p = "a" -> Dec(3, -3)
      [] OTHER -> Dec(49, -3)

\* the attributes run divides by or multiplies with are numbers, and the
\* divisors are not zero
Runnable(s) ==
    /\ \A x \in {s.l, s.dm, s.dd, s.dt, s.Cm, s.Cd, s.ht, s.Tm, s.Td} : IsNum(x)
    /\ ~IsZero(s.l) /\ ~IsZero(s.Cm) /\ ~IsZero(s.Cd) /\ ~IsZero(RAdd(s.dm, s.dd))

Distinct(seq) == \A i, j \in DOMAIN seq : i # j => seq[i] # seq[j]

\* the cell of agent name in row i of the series a call iterates over, read
\* from the call's arguments: historical rows first, then scenario rows
RawCell(c, i, name) ==
    LET row == IF i <= Len(c.hist.data) THEN c.hist.data[i]
               ELSE c.ssps.df.data[i - Len(c.hist.data)]
    IN  IF name \in DOMAIN row THEN row[name] ELSE NaN

\* the columns of the series a call iterates over, read from its arguments
SeriesColumns(c) ==
    Range(c.hist.columns) \cup
    (IF c.ssps.kind = "None" THEN {} ELSE Range(c.ssps.df.columns) \ {"YEAR"})

Contribution(c, i, name) ==
    IF isnan(RawCell(c, i, name)) THEN Zero
    ELSE RMul(RawCell(c, i, name), c.sf.items[name])

RECURSIVE SumOver(_, _, _)
SumOver(S, c, i) ==
    IF S = {} THEN Zero
    ELSE LET x == CHOOSE y \in S : TRUE
         IN  RAdd(Contribution(c, i, x), SumOver(S \ {x}, c, i))

\* ------------------------------------------------------------------------
\* C1.  Simultaneous update
\* ------------------------------------------------------------------------
\* the step as the two formulas state it, both from the snapshot (Tm, Td)
SnapshotTd(o, Tm, Td) ==
    RAdd(Td, RDiv(RMul(RMul(o.dt, o.ht), RSub(Tm, Td)),
                  RMul(RMul(Half, o.Cd), RAdd(o.dm, o.dd))))

SnapshotTm(o, Tm, Td, F) ==
    RAdd(Tm, RDiv(RMul(o.dt,
                       RSub(RSub(F, RDiv(RMul(o.ht, RSub(Tm, Td)),
                                         RMul(Half, RAdd(o.dm, o.dd)))),
                            RDiv(Tm, o.l))),
                  o.Cm))

\* C1: in every step of run the new deep temperature and the new mixed-layer
\* temperature are both computed from the state before the step; the
\* mixed-layer formula uses the deep temperature from before the step.
C1_BothFromSnapshot ==
    HasLast /\ RanOk(Last) =>
        \A i \in DOMAIN Last.trace :
            LET t == Last.trace[i]
            IN  /\ t.Td = SnapshotTd(Last.pre, t.Tm0, t.Td0)
                /\ t.Tm = SnapshotTm(Last.pre, t.Tm0, t.Td0, t.F)

\* ------------------------------------------------------------------------
\* C2.  State continuity
\* ------------------------------------------------------------------------
\* Prev ran a prefix and Last the suffix of one series with distinct time
\* indices, with the same scaling factors and output shape and no call between
SplitRun ==
    /\ HasPrev /\ RanOk(Prev) /\ RanOk(Last)
    /\ Prev.ssps.kind = "None" /\ Last.ssps.kind = "None"
    /\ Prev.sf = Last.sf /\ Prev.rf = Last.rf
    /\ Prev.hist.columns = Last.hist.columns
    /\ Distinct(Prev.hist.index \o Last.hist.index)

\* C2: run on a prefix and then on the suffix gives the rows and the final
\* (Tm, Td) of one run over the whole series from the same initial state.
C2_StateContinuity ==
    SplitRun =>
        LET whole == run(Prev.pre, concat(Prev.hist, Last.hist), NoFrame,
                         Prev.sf, Prev.rf, hashOrder)
        IN  /\ whole.err = "none"
            /\ whole.result.columns = Last.result.columns
            /\ whole.result.index = Prev.result.index \o Last.result.index
            /\ whole.result.data = Prev.result.data \o Last.result.data
            /\ whole.self.Tm = self.Tm
            /\ whole.self.Td = self.Td

C2_Witness ==
    /\ SplitRun
    /\ Len(Prev.hist.data) >= 1 /\ Len(Last.hist.data) >= 1
    /\ Prev.rf
    /\ \E i \in DOMAIN Last.trace : ~IsZero(Last.trace[i].F)
    /\ Prev.post.Tm # Prev.pre.Tm

\* ------------------------------------------------------------------------
\* C3.  Constructor defaults
\* ------------------------------------------------------------------------
\* C3: a parameter not given to the constructor has its module default
\* value on the constructed object, in both files.
C3_OmittedTakesDefault ==
    log = <<>> =>
        \A p \in ParamNames \ DOMAIN ctor : AttrOf(self, p) = DefaultOf(p)

\* ------------------------------------------------------------------------
\* C5.  Zero forcing
\* ------------------------------------------------------------------------
ZeroForcingRun(c) ==
    /\ RanOk(c)
    /\ c.sf.kind = "dict"
    /\ \A k \in DOMAIN c.sf.items : IsZero(c.sf.items[k])
    /\ Positive(c.pre.l) /\ Positive(c.pre.Cm) /\ Positive(c.pre.Cd)
    /\ Positive(c.pre.ht)

\* C5 as stated: with all scaling factors 0 and positive climate_sensitivity,
\* Cm, Cd, ht, at every step neither |Tm| nor |Td| increases.
C5_EachReservoirRelaxes ==
    HasLast /\ ZeroForcingRun(Last) =>
        \A i \in DOMAIN Last.trace :
            LET t == Last.trace[i]
            IN  /\ RLeq(RAbs(t.Tm), RAbs(t.Tm0))
                /\ RLeq(RAbs(t.Td), RAbs(t.Td0))

\* the step is short enough for both updates to be contractions
ShortStep(o) ==
    /\ Positive(o.dt) /\ Positive(RAdd(o.dm, o.dd))
    /\ RLeq(RDiv(RMul(o.dt, o.ht), RMul(RMul(Half, o.Cd), RAdd(o.dm, o.dd))), Q(1, 1))
    /\ RLeq(RMul(RDiv(o.dt, o.Cm),
                 RAdd(RDiv(o.ht, RMul(Half, RAdd(o.dm, o.dd))), RInv(o.l))),
            Q(1, 1))

\* C5 amended: with all scaling factors 0, positive parameters and a short
\* step, the larger of |Tm| and |Td| does not increase at any step.
C5_LargerMagnitudeRelaxes ==
    HasLast /\ ZeroForcingRun(Last) /\ ShortStep(Last.pre) =>
        \A i \in DOMAIN Last.trace :
            LET t == Last.trace[i]
            IN  RLeq(RMax(RAbs(t.Tm), RAbs(t.Td)), RMax(RAbs(t.Tm0), RAbs(t.Td0)))

C5_Witness ==
    /\ HasLast /\ ZeroForcingRun(Last) /\ ShortStep(Last.pre)
    /\ Len(Last.trace) >= 2
    /\ ~IsZero(Last.pre.Tm)
    /\ \E i \in DOMAIN Last.trace :
          ~RLeq(RAbs(Last.trace[i].Td), RAbs(Last.trace[i].Td0))

\* ------------------------------------------------------------------------
\* C8.  First step from rest
\* ------------------------------------------------------------------------
FromRestOneRow(c) ==
    /\ RanOk(c)
    /\ c.ssps.kind = "None"
    /\ Len(c.hist.data) = 1
    /\ IsZero(c.pre.Tm) /\ IsZero(c.pre.Td)

\* the last four cells of the only row returned
Cell(c, k) == c.result.data[1][Len(c.result.data[1]) - 4 + k]

\* Forcing = F, Deep dT = 0, Mixed dT = dt*F/Cm, Pred Anom = Mixed dT - 0.07
FirstRowFromRest(c) ==
    LET F == SumOver(DOMAIN c.sf.items \cap SeriesColumns(c), c, 1)
    IN  /\ Len(c.result.data) = 1
        /\ Cell(c, 1) = F
        /\ Cell(c, 2) = Zero
        /\ Cell(c, 3) = RDiv(RMul(c.pre.dt, F), c.pre.Cm)
        /\ Cell(c, 4) = RSub(Cell(c, 3), Dec(7, -2))

\* default parameters, one active agent CO2 with raw value 1.0 and scale 2.0
DefaultExample(c) ==
    /\ FromRestOneRow(c)
    /\ \A p \in ParamNames : AttrOf(c.pre, p) = DefaultOf(p)
    /\ c.sf = OnlyCO2
    /\ c.hist.data[1]["CO2"] = Q(1, 1)

\* x written to six decimals is the decimal m * 10^-6
SixDecimals(x, m) == RLeq(RAbs(RSub(x, Dec(m, -6))), Dec(5, -7))

\* C8 as stated: the first row from rest is (F, 0, dt*F/Cm, dt*F/Cm - 0.07),
\* and in the default example Mixed dT is about 0.149549 and Pred Anom about
\* 0.079549.
C8_FirstRowAsStated ==
    HasLast =>
        /\ FromRestOneRow(Last) => FirstRowFromRest(Last)
        /\ DefaultExample(Last) =>
              /\ Cell(Last, 1) = Q(2, 1)
              /\ Cell(Last, 2) = Zero
              /\ Cell(Last, 3) = RDiv(RMul(Dec(31536, 3), Q(2, 1)), Dec(4218, 5))
              /\ SixDecimals(Cell(Last, 3), 149549)
              /\ SixDecimals(Cell(Last, 4), 79549)

\* C8 amended: the first row from rest is (F, 0, dt*F/Cm, dt*F/Cm - 0.07),
\* and in the default example Mixed dT = 31536000*2.0/421800000, which is
\* about 0.149531, and Pred Anom is about 0.079531.
C8_FirstRowFromRest ==
    HasLast =>
        /\ FromRestOneRow(Last) => FirstRowFromRest(Last)
        /\ DefaultExample(Last) =>
              /\ Cell(Last, 1) = Q(2, 1)
              /\ Cell(Last, 2) = Zero
              /\ Cell(Last, 3) = RDiv(RMul(Dec(31536, 3), Q(2, 1)), Dec(4218, 5))
              /\ SixDecimals(Cell(Last, 3), 149531)
              /\ SixDecimals(Cell(Last, 4), 79531)

C8_Witness == HasLast /\ DefaultExample(Last) /\ Last.result.index = <<1>>

\* ------------------------------------------------------------------------
\* C9.  Explicit reset
\* ------------------------------------------------------------------------
ResetThenRun == HasPrev /\ Prev.op = "init_ocean_temp" /\ Last.op = "run"

\* the object a constructor call with the same parameters and the initial
\* state (Tm0, Td0) gives
Fresh(Tm0, Td0) == ClimateModelInit(With(With(ctor, "Tm", Tm0), "Td", Td0))

\* C9: init_ocean_temp(Tm0, Td0) sets the state to (Tm0, Td0) and changes no
\* parameter, the run after it returns what a fresh integrator with the same
\* parameters and that initial state returns, and a run that follows a run
\* without a reset starts from the state the earlier run left.
C9_ExplicitReset ==
    /\ HasLast /\ Last.op = "init_ocean_temp" =>
          /\ self.Tm = Last.args["Tm"] /\ self.Td = Last.args["Td"]
          /\ \A p \in ParamNames \ {"Tm", "Td"} : AttrOf(self, p) = AttrOf(Last.pre, p)
          /\ self.pre_industrial = Last.pre.pre_industrial
    /\ ResetThenRun =>
          LET r == run(Fresh(Prev.args["Tm"], Prev.args["Td"]), Last.hist, Last.ssps,
                       Last.sf, Last.rf, hashOrder)
          IN  /\ r.err = Last.err
              /\ r.result = Last.result
              /\ r.self = self
    /\ HasPrev /\ Prev.op = "run" /\ Last.op = "run" /\ Last.trace # <<>> =>
          /\ Last.trace[1].Tm0 = Prev.post.Tm
          /\ Last.trace[1].Td0 = Prev.post.Td

C9_Witness ==
    /\ Len(log) = 3
    /\ RanOk(log[1]) /\ log[1].post.Tm # log[1].pre.Tm /\ log[1].post.Td # log[1].pre.Td
    /\ ResetThenRun /\ RanOk(Last)
    /\ Prev.args["Td"] # Prev.pre.Td /\ Prev.args["Tm"] # Prev.pre.Tm
    /\ Len(Last.trace) >= 2
    /\ ~IsZero(Last.trace[1].F)

\* ------------------------------------------------------------------------
\* C4.  Scaling factors absent or empty
\* ------------------------------------------------------------------------
SeriesUsable(c) ==
    /\ c.op = "run"
    /\ Runnable(c.pre)
    /\ c.ssps.kind = "None" \/ "YEAR" \in Range(c.ssps.df.columns)

\* C4: a run whose scaling_factor is left at its default or is empty is not
\* rejected; it returns a row per time step, each with aggregate forcing 0.
C4_NoScalingAccepted ==
    HasLast /\ SeriesUsable(Last)
            /\ (Last.sf.kind = "None" \/ DOMAIN Last.sf.items = {}) =>
        /\ Last.err = "none"
        /\ Len(Last.trace) =
              Len(Last.hist.data) +
              (IF Last.ssps.kind = "None" THEN 0 ELSE Len(Last.ssps.df.data))
        /\ \A i \in DOMAIN Last.trace : IsZero(Last.trace[i].F)
        /\ \A i \in DOMAIN Last.result.data : IsZero(Last.result.data[i][1])

\* ------------------------------------------------------------------------
\* C6.  Agent filtering
\* ------------------------------------------------------------------------
Active(c) == DOMAIN c.sf.items \cap SeriesColumns(c)

\* C6: the participating agents are exactly the names that are a column of
\* the series and a key of the scaling factors: they alone have a column in
\* the output with return_forcings, and the aggregate forcing of every row is
\* the sum of their contributions alone.
C6_AgentFiltering ==
    HasLast /\ RanOk(Last) =>
        LET cols == Last.result.columns
            k    == Cardinality(Active(Last))
        IN  /\ Last.rf =>
                  /\ Len(cols) = k + 4
                  /\ {cols[i] : i \in 1..k} = Active(Last)
                  /\ SubSeq(cols, k + 1, k + 4) = ResultColumns
            /\ ~Last.rf => cols = ResultColumns
            /\ \A i \in DOMAIN Last.trace :
                  /\ Len(Last.trace[i].vals) = k
                  /\ Last.trace[i].F = SumOver(Active(Last), Last, i)

C6_Witness ==
    /\ HasLast /\ RanOk(Last) /\ Last.rf
    /\ Last.sf = Mixed
    /\ Last.ssps.kind # "None"
    /\ Len(Last.hist.data) >= 1
    /\ Active(Last) = {"CO2", "AER", "SOL"}
    /\ "N2O" \in SeriesColumns(Last)
    /\ \E i \in DOMAIN Last.trace : ~IsZero(Last.trace[i].F)

\* ------------------------------------------------------------------------
\* C7.  Missing values
\* ------------------------------------------------------------------------
\* C7: in every row the contribution of an active agent is its value, or 0
\* when the value is missing, times its scale factor, and the aggregate
\* forcing is the sum of the contributions; a missing value makes the
\* contribution 0 at its own step and at no other.
C7_MissingAsZero ==
    HasLast /\ RanOk(Last) =>
        LET ff == list_of_set(Active(Last), hashOrder)
        IN  \A i \in DOMAIN Last.trace :
                LET t == Last.trace[i]
                IN  /\ DOMAIN t.vals = DOMAIN ff
                    /\ \A k \in DOMAIN ff :
                          /\ isnan(RawCell(Last, i, ff[k])) => t.vals[k] = Zero
                          /\ ~isnan(RawCell(Last, i, ff[k])) =>
                                t.vals[k] = RMul(RawCell(Last, i, ff[k]),
                                                 Last.sf.items[ff[k]])
                    /\ t.F = sum(t.vals)

C7_Witness ==
    /\ HasLast /\ RanOk(Last)
    /\ \E name \in Active(Last) : \E i, j \in DOMAIN Last.trace :
          /\ isnan(RawCell(Last, i, name))
          /\ ~isnan(RawCell(Last, j, name))
          /\ ~IsZero(Contribution(Last, j, name))
          /\ ~IsZero(Last.trace[i].F)

\* ------------------------------------------------------------------------
\* C10.  Scenario series without the time-index key
\* ------------------------------------------------------------------------
LacksYear(c) ==
    c.op = "run" /\ c.ssps.kind # "None" /\ "YEAR" \notin Range(c.ssps.df.columns)

\* C10: a run given a scenario series without a YEAR column raises a lookup
\* error, returns no table, executes no step and leaves (Tm, Td) as they were.
C10_MissingYearFailsWholeCall ==
    HasLast /\ LacksYear(Last) =>
        /\ Last.err = "KeyError"
        /\ Last.result = EmptyFrame
        /\ Last.trace = <<>>
        /\ self.Tm = Last.pre.Tm /\ self.Td = Last.pre.Td

C10_Witness ==
    /\ HasLast /\ LacksYear(Last)
    /\ Runnable(Last.pre)
    /\ Len(Last.hist.data) >= 1
    /\ Last.sf = Mixed

====
